---- MODULE Spec2Model ----
(***************************************************************************)
(* The fusion-plus-htlc contract (contracts/fusion-plus-htlc/src/lib.rs)   *)
(* as a state machine.  A contract method is a pure operator over the      *)
(* contract state and the call environment; it yields a call outcome       *)
(* [ok, err, st, ret].  When a method panics, `st` is the state at the     *)
(* panic point and the runtime discards it: the call leaves no trace, so   *)
(* only successful calls are steps of the machine.                         *)
(*                                                                         *)
(* Strings that the code inspects character by character (hashlocks) are   *)
(* sequences of one-character strings; all others are plain strings.       *)
(* keccak256 is collision free here: the 16-byte id is represented by the  *)
(* formatted string it is the digest of.                                   *)
(***************************************************************************)
EXTENDS Integers, Sequences, FiniteSets, TLC

VARIABLES owner, htlcs, active_htlcs, eth_orchestrator, supported_tokens,
          htlc_ids, events, transfers, block_timestamp

vars == <<owner, htlcs, active_htlcs, eth_orchestrator, supported_tokens,
          htlc_ids, events, transfers, block_timestamp>>

(***************************************************************************)
(* Bounds of the model.                                                    *)
(***************************************************************************)
MaxBlocks == 3
MaxTimelock == 1
MaxAmount == 1
MaxCreates == 2
MaxBatch == 2

(***************************************************************************)
(* Program constants.                                                      *)
(***************************************************************************)
NanosPerSec == 1000000000
HashHexLen == 64
FtTransferDeposit == 1
FtTransferTgas == 10

ERR_HTLC_NOT_FOUND == "HTLC not found"
ERR_HTLC_NOT_ACTIVE == "HTLC is not active"
ERR_INVALID_SECRET == "Invalid secret"
ERR_TIMELOCK_NOT_EXPIRED == "Timelock has not expired"
ERR_UNAUTHORIZED == "Unauthorized"
ERR_INVALID_HASHLOCK == "Invalid hashlock format"
ERR_INVALID_TIMELOCK == "Invalid timelock"
ERR_INSUFFICIENT_DEPOSIT == "Insufficient deposit"
ERR_WITHDRAWAL_EXPIRED == "Withdrawal period has expired"
ERR_TOKEN_MISMATCH == "Token mismatch"
ERR_TOKEN_CONTRACT_MISMATCH == "Token contract mismatch"
ERR_MUST_ATTACH_DEPOSIT == "Must attach deposit"
ERR_BATCH_DEPOSIT == "Attached deposit must equal sum of all NEAR HTLC amounts"

HTLCState == {"Active", "Withdrawn", "Refunded", "Expired"}

NEAR == "near"

\* Option<T>: None is the empty sequence, Some(v) the one-element sequence.
None == <<>>
Some(v) == <<v>>

(***************************************************************************)
(* The time line.  TLC's integers are 32 bits wide, so nanosecond          *)
(* timestamps stay within two seconds; the blocks divide that horizon.     *)
(***************************************************************************)
Horizon == 2 * NanosPerSec
BlockNanos == (Horizon \div MaxBlocks) + 1

(***************************************************************************)
(* Accounts, secrets and hashlocks the calls are drawn from.               *)
(***************************************************************************)
Users == {"al", "al-al"}
TokenAccounts == {NEAR, "usdc"}
Accounts == Users \cup TokenAccounts
Owner == "al"

Secrets == {"mysecret", "mysecreu"}

\* hex::encode(env::keccak256(secret.as_bytes())): the digests of the secrets.
Keccak256Hex(secret) ==
    CASE secret = "mysecret" ->
           <<"4", "1", "1", "3", "3", "a", "9", "e", "e", "6", "1", "8", "c", "4", "2", "f",
             "1", "d", "3", "b", "4", "0", "a", "6", "9", "a", "7", "5", "0", "c", "b", "9",
             "e", "6", "d", "f", "6", "b", "1", "8", "0", "1", "d", "e", "6", "7", "4", "3",
             "0", "1", "2", "f", "8", "2", "9", "8", "5", "5", "e", "c", "7", "d", "f", "0">>
      [] secret = "mysecreu" ->
           <<"d", "8", "1", "c", "b", "5", "3", "0", "a", "d", "6", "d", "5", "1", "9", "4",
             "d", "c", "0", "b", "e", "f", "3", "f", "6", "a", "4", "e", "2", "b", "a", "f",
             "2", "1", "6", "8", "e", "e", "8", "b", "b", "7", "5", "0", "c", "2", "b", "8",
             "c", "d", "d", "8", "d", "4", "1", "5", "2", "6", "2", "7", "6", "5", "b", "5">>

\* hex of the SHA-256 digests of the secrets (the hash the tests and the doc
\* comment of HTLC.hashlock name).
Sha256Hex(secret) ==
    CASE secret = "mysecret" ->
           <<"6", "5", "2", "c", "7", "d", "c", "6", "8", "7", "d", "9", "8", "c", "9", "8",
             "8", "9", "3", "0", "4", "e", "d", "2", "e", "4", "0", "8", "c", "7", "4", "b",
             "6", "1", "1", "e", "8", "6", "a", "4", "0", "c", "a", "a", "5", "1", "c", "4",
             "b", "4", "3", "f", "1", "d", "d", "5", "9", "1", "3", "c", "5", "c", "d", "0">>
      [] secret = "mysecreu" ->
           <<"5", "0", "a", "b", "6", "1", "5", "1", "a", "2", "2", "f", "a", "5", "7", "0",
             "1", "1", "b", "1", "3", "9", "6", "0", "0", "4", "4", "5", "d", "7", "2", "6",
             "7", "d", "7", "d", "f", "8", "6", "9", "0", "5", "7", "9", "b", "c", "e", "2",
             "5", "9", "8", "d", "1", "2", "b", "8", "4", "b", "7", "d", "b", "1", "e", "f">>

DecDigits == {"0", "1", "2", "3", "4", "5", "6", "7", "8", "9"}
LowerHexLetters == {"a", "b", "c", "d", "e", "f"}
UpperHexLetters == {"A", "B", "C", "D", "E", "F"}

\* char::is_ascii_hexdigit
is_ascii_hexdigit(c) == c \in DecDigits \cup LowerHexLetters \cup UpperHexLetters

\* char::to_ascii_uppercase on a hex digit (used to build upper-case inputs)
to_ascii_uppercase(c) ==
    CASE c = "a" -> "A" [] c = "b" -> "B" [] c = "c" -> "C"
      [] c = "d" -> "D" [] c = "e" -> "E" [] c = "f" -> "F"
      [] OTHER -> c

\* str::trim_start_matches("0x"): strips every leading repetition of "0x".
RECURSIVE trim_start_matches_0x(_)
trim_start_matches_0x(s) ==
    IF Len(s) >= 2 /\ s[1] = "0" /\ s[2] = "x"
    THEN trim_start_matches_0x(SubSeq(s, 3, Len(s)))
    ELSE s

validate_secret(secret, hashlock) ==
    LET hashlock_clean == trim_start_matches_0x(hashlock)
        hash_hex == Keccak256Hex(secret)
    IN  hash_hex = hashlock_clean

validate_hashlock(hashlock) ==
    LET hashlock_clean == trim_start_matches_0x(hashlock)
    IN  /\ Len(hashlock_clean) = HashHexLen
        /\ \A i \in 1..Len(hashlock_clean) : is_ascii_hexdigit(hashlock_clean[i])

\* The mutant converts with twice the divisor: its clock runs at half rate.
current_timestamp_sec_HalfRate(env) == env.block_timestamp \div (2 * NanosPerSec)

current_timestamp_sec(env) == env.block_timestamp \div NanosPerSec

validate_timelock_Any(timelock, env) == TRUE

validate_timelock(timelock, env) == timelock > env.block_timestamp \div NanosPerSec

generate_htlc_id(sender, receiver, timestamp) ==
    sender \o "-" \o receiver \o "-" \o ToString(timestamp)

\* The hashlocks offered to the creation calls.
HashLower == Keccak256Hex("mysecret")
HashUpper == [i \in 1..Len(HashLower) |-> to_ascii_uppercase(HashLower[i])]
HashPrefixed == <<"0", "x">> \o HashLower
HashDoublePrefixed == <<"0", "x">> \o HashPrefixed
HashShort == SubSeq(HashLower, 1, HashHexLen \div 2)
HashBadChar == [HashLower EXCEPT ![HashHexLen] = "g"]
HashSha256 == Sha256Hex("mysecret")
Hashlocks == {HashLower, HashUpper, HashPrefixed, HashDoublePrefixed, HashShort, HashBadChar}

Timelocks == 0..MaxTimelock
Amounts == 0..MaxAmount
OrderHashes == {None}

(***************************************************************************)
(* Call outcomes and the storage collections.                              *)
(***************************************************************************)
Ok(st, ret) == [ok |-> TRUE, err |-> "", st |-> st, ret |-> ret]

\* A panic: the call fails with a message.  The mutant leaves a trace of the
\* failed call in the event log.
Panic_LeavesTrace(st, msg) ==
    [ok |-> FALSE, err |-> msg, st |-> [st EXCEPT !.events = Append(@, [panic |-> msg])],
     ret |-> None]

Panic(st, msg) == [ok |-> FALSE, err |-> msg, st |-> st, ret |-> None]

\* LookupMap::insert
MapInsert(m, k, v) == [x \in (DOMAIN m) \cup {k} |-> IF x = k THEN v ELSE m[x]]
\* LookupMap::remove
MapRemove(m, k) == [x \in (DOMAIN m) \ {k} |-> m[x]]

\* The contract state a method works on, with the logs and receipts of the call.
Contract ==
    [owner |-> owner, htlcs |-> htlcs, active_htlcs |-> active_htlcs,
     eth_orchestrator |-> eth_orchestrator, supported_tokens |-> supported_tokens,
     htlc_ids |-> htlc_ids, events |-> events, transfers |-> transfers]

\* The environment of a call: env::predecessor_account_id(),
\* env::block_timestamp(), env::attached_deposit().
Env(predecessor, deposit) ==
    [predecessor |-> predecessor, block_timestamp |-> block_timestamp,
     attached_deposit |-> deposit]

HTLCCreateArgs(receiver, token, amount, hashlock, timelock, order_hash) ==
    [receiver |-> receiver, token |-> token, amount |-> amount,
     hashlock |-> hashlock, timelock |-> timelock, order_hash |-> order_hash]

HTLCCreatedEvent(htlc_id, sender, args) ==
    [htlc_id |-> htlc_id, sender |-> sender, receiver |-> args.receiver,
     token |-> args.token, amount |-> args.amount, hashlock |-> args.hashlock,
     timelock |-> args.timelock, order_hash |-> args.order_hash]

\* The mutant publishes the Withdrawn event without the secret.
HTLCWithdrawnEvent_NoSecret(htlc_id, htlc, secret) ==
    [htlc_id |-> htlc_id, receiver |-> htlc.receiver, secret |-> "",
     amount |-> htlc.amount]

HTLCWithdrawnEvent(htlc_id, htlc, secret) ==
    [htlc_id |-> htlc_id, receiver |-> htlc.receiver, secret |-> secret,
     amount |-> htlc.amount]

HTLCRefundedEvent(htlc_id, htlc) ==
    [htlc_id |-> htlc_id, sender |-> htlc.sender, amount |-> htlc.amount]

IsCreatedEvent(e) == "hashlock" \in DOMAIN e
IsWithdrawnEvent(e) == "secret" \in DOMAIN e
IsRefundedEvent(e) == DOMAIN e = {"htlc_id", "sender", "amount"}

\* Mutant of TransferPromise: every payout is a native transfer.
TransferPromise_AlwaysNative(htlc, beneficiary, memo) ==
    [target |-> beneficiary, action |-> "transfer", deposit |-> htlc.amount,
     gas |-> 0, args |-> None]

\* Promise::new(beneficiary).transfer(amount) for the native token, otherwise
\* Promise::new(token).function_call("ft_transfer", {receiver_id, amount, memo}, 1 yocto, 10 Tgas)
TransferPromise(htlc, beneficiary, memo) ==
    IF htlc.token = NEAR
    THEN [target |-> beneficiary, action |-> "transfer", deposit |-> htlc.amount,
          gas |-> 0, args |-> None]
    ELSE [target |-> htlc.token, action |-> "ft_transfer",
          deposit |-> FtTransferDeposit, gas |-> FtTransferTgas,
          args |-> Some([receiver_id |-> beneficiary,
                         amount |-> ToString(htlc.amount), memo |-> memo])]

\* A receipt of the call: the promise, and the call and block that issued it.
Receipt(op, htlc_id, env, promise) ==
    [op |-> op, htlc_id |-> htlc_id, at |-> env.block_timestamp, promise |-> promise]

\* "Update state" of withdraw.  The mutant forgets the secret.
WithdrawnRecord_NoSecret(stored, secret) == [stored EXCEPT !.state = "Withdrawn"]

WithdrawnRecord(stored, secret) ==
    [stored EXCEPT !.state = "Withdrawn", !.secret = Some(secret)]

\* "Update state" of refund.  The mutant leaves the record Active.
RefundedRecord_StaysActive(stored) == stored

RefundedRecord(stored) == [stored EXCEPT !.state = "Refunded"]

\* "Check timelock hasn't expired" of withdraw.  The mutant admits the boundary.
WithdrawalOpen_Inclusive(current_time, timelock) == current_time <= timelock

WithdrawalOpen(current_time, timelock) == current_time < timelock

\* "Check timelock has expired" of refund.  The mutant opens one second late.
RefundDue_Late(current_time, timelock) == current_time > timelock

RefundDue(current_time, timelock) == current_time >= timelock

\* "Check authorization" of withdraw and refund: the caller is the record's
\* receiver (sender).  The mutant lets any account through.
CallerIs_Anyone(env, account) == TRUE

CallerIs(env, account) == env.predecessor = account

\* The token assertion of internal_create_htlc: the declared token is the
\* immediate caller.  The mutant drops the assertion.
TokenIsCaller_Unchecked(args, env) == TRUE

TokenIsCaller(args, env) == args.token = env.predecessor

\* "Remove from active HTLCs" and "remove the empty set" in withdraw and refund.
RemoveFromActive(active, sender, htlc_id) ==
    LET a1 == IF sender \in DOMAIN active
              THEN [active EXCEPT ![sender] = @ \ {htlc_id}]
              ELSE active
    IN  IF sender \in DOMAIN a1 /\ a1[sender] = {}
        THEN MapRemove(a1, sender)
        ELSE a1

(***************************************************************************)
(* Creation.                                                               *)
(***************************************************************************)
internal_create_htlc(st, env, args, sender, amount) ==
    IF ~validate_hashlock(args.hashlock) THEN Panic(st, ERR_INVALID_HASHLOCK)
    ELSE IF ~validate_timelock(args.timelock, env) THEN Panic(st, ERR_INVALID_TIMELOCK)
    ELSE IF amount # args.amount THEN Panic(st, ERR_INSUFFICIENT_DEPOSIT)
    ELSE IF ~TokenIsCaller(args, env) THEN Panic(st, ERR_TOKEN_MISMATCH)
    ELSE
      LET htlc_id == generate_htlc_id(sender, args.receiver, env.block_timestamp)
          htlc == [sender |-> sender, receiver |-> args.receiver, token |-> args.token,
                   amount |-> args.amount, hashlock |-> args.hashlock,
                   timelock |-> args.timelock, secret |-> None, state |-> "Active",
                   created_at |-> current_timestamp_sec(env),
                   order_hash |-> args.order_hash]
          active == IF sender \in DOMAIN st.active_htlcs
                    THEN [st.active_htlcs EXCEPT ![sender] = @ \cup {htlc_id}]
                    ELSE MapInsert(st.active_htlcs, sender, {htlc_id})
      IN  Ok([st EXCEPT !.htlcs = MapInsert(@, htlc_id, htlc),
                        !.htlc_ids = Append(@, htlc_id),
                        !.active_htlcs = active,
                        !.events = Append(@, HTLCCreatedEvent(htlc_id, sender, args))],
             htlc_id)

create_htlc(st, env, args) ==
    LET deposit == env.attached_deposit IN
    IF ~(deposit > 0) THEN Panic(st, ERR_MUST_ATTACH_DEPOSIT)
    ELSE LET modified_args == [args EXCEPT !.token = NEAR, !.amount = deposit]
         IN  internal_create_htlc(st, env, modified_args, env.predecessor, deposit)

ft_on_transfer(st, env, sender_id, amount, args) ==
    LET token_contract == env.predecessor IN
    IF token_contract # args.token THEN Panic(st, ERR_TOKEN_CONTRACT_MISMATCH)
    ELSE LET r == internal_create_htlc(st, env, args, sender_id, amount)
         IN  IF r.ok THEN Ok(r.st, 0) ELSE r

\* serde_json::to_string of HTLCCreateArgs: the JSON object as the list of its
\* members, in the order of the struct's fields.
serde_json_to_string(args) ==
    <<[key |-> "receiver", value |-> args.receiver],
      [key |-> "token", value |-> args.token],
      [key |-> "amount", value |-> args.amount],
      [key |-> "hashlock", value |-> args.hashlock],
      [key |-> "timelock", value |-> args.timelock],
      [key |-> "order_hash", value |-> args.order_hash]>>

\* The value of a member of a JSON object.
JsonMember(msg, key) == msg[CHOOSE i \in DOMAIN msg : msg[i].key = key].value

\* Whether a JSON object has a member.
JsonHas(msg, key) == \E i \in DOMAIN msg : msg[i].key = key

\* serde_json::from_str to HTLCCreateArgs: None unless every field of the
\* struct but the optional order_hash is a member of the object; a missing
\* order_hash reads as None.
serde_json_from_str(msg) ==
    IF \A key \in {"receiver", "token", "amount", "hashlock", "timelock"} : JsonHas(msg, key)
    THEN Some(HTLCCreateArgs(JsonMember(msg, "receiver"), JsonMember(msg, "token"),
                             JsonMember(msg, "amount"), JsonMember(msg, "hashlock"),
                             JsonMember(msg, "timelock"),
                             IF JsonHas(msg, "order_hash")
                             THEN JsonMember(msg, "order_hash") ELSE None))
    ELSE None

\* HTLCTokenReceiver::create_htlc_msg
PlaceholderToken == "placeholder"

create_htlc_msg(receiver, hashlock, timelock, order_hash) ==
    serde_json_to_string(
        HTLCCreateArgs(receiver, PlaceholderToken, 0, hashlock, timelock, order_hash))

\* ft_on_transfer as the token contract calls it, with the message as sent.
ERR_INVALID_MSG == "Invalid HTLC parameters in msg"

ft_on_transfer_msg(st, env, sender_id, amount, msg) ==
    LET parsed == serde_json_from_str(msg) IN
    IF parsed = None THEN Panic(st, ERR_INVALID_MSG)
    ELSE ft_on_transfer(st, env, sender_id, amount, parsed[1])

(***************************************************************************)
(* Withdrawal and refund.                                                  *)
(***************************************************************************)
\* The mutant of withdraw validates the secret before the caller.
withdraw_SecretFirst(st, env, htlc_id, secret) ==
    IF htlc_id \notin DOMAIN st.htlcs THEN Panic(st, ERR_HTLC_NOT_FOUND)
    ELSE
      LET stored == st.htlcs[htlc_id] IN
      IF stored.state # "Active" THEN Panic(st, ERR_HTLC_NOT_ACTIVE)
      ELSE IF ~validate_secret(secret, stored.hashlock) THEN Panic(st, ERR_INVALID_SECRET)
      ELSE IF ~CallerIs(env, stored.receiver) THEN Panic(st, ERR_UNAUTHORIZED)
      ELSE IF ~WithdrawalOpen(current_timestamp_sec(env), stored.timelock)
           THEN Panic(st, ERR_WITHDRAWAL_EXPIRED)
      ELSE
        LET htlc == WithdrawnRecord(stored, secret)
            promise == TransferPromise(htlc, htlc.receiver,
                                       "HTLC " \o htlc_id \o " withdrawn")
        IN  Ok([st EXCEPT !.htlcs = MapInsert(@, htlc_id, htlc),
                          !.active_htlcs = RemoveFromActive(@, htlc.sender, htlc_id),
                          !.events = Append(@, HTLCWithdrawnEvent(htlc_id, htlc, secret)),
                          !.transfers = Append(@, Receipt("withdraw", htlc_id, env, promise))],
               promise)

withdraw(st, env, htlc_id, secret) ==
    IF htlc_id \notin DOMAIN st.htlcs THEN Panic(st, ERR_HTLC_NOT_FOUND)
    ELSE
      LET stored == st.htlcs[htlc_id] IN
      IF stored.state # "Active" THEN Panic(st, ERR_HTLC_NOT_ACTIVE)
      ELSE IF ~CallerIs(env, stored.receiver) THEN Panic(st, ERR_UNAUTHORIZED)
      ELSE IF ~validate_secret(secret, stored.hashlock) THEN Panic(st, ERR_INVALID_SECRET)
      ELSE IF ~WithdrawalOpen(current_timestamp_sec(env), stored.timelock)
           THEN Panic(st, ERR_WITHDRAWAL_EXPIRED)
      ELSE
        LET htlc == WithdrawnRecord(stored, secret)
            promise == TransferPromise(htlc, htlc.receiver,
                                       "HTLC " \o htlc_id \o " withdrawn")
        IN  Ok([st EXCEPT !.htlcs = MapInsert(@, htlc_id, htlc),
                          !.active_htlcs = RemoveFromActive(@, htlc.sender, htlc_id),
                          !.events = Append(@, HTLCWithdrawnEvent(htlc_id, htlc, secret)),
                          !.transfers = Append(@, Receipt("withdraw", htlc_id, env, promise))],
               promise)

refund(st, env, htlc_id) ==
    IF htlc_id \notin DOMAIN st.htlcs THEN Panic(st, ERR_HTLC_NOT_FOUND)
    ELSE
      LET stored == st.htlcs[htlc_id] IN
      IF stored.state # "Active" THEN Panic(st, ERR_HTLC_NOT_ACTIVE)
      ELSE IF ~CallerIs(env, stored.sender) THEN Panic(st, ERR_UNAUTHORIZED)
      ELSE IF ~RefundDue(current_timestamp_sec(env), stored.timelock)
           THEN Panic(st, ERR_TIMELOCK_NOT_EXPIRED)
      ELSE
        LET htlc == RefundedRecord(stored)
            promise == TransferPromise(htlc, htlc.sender,
                                       "HTLC " \o htlc_id \o " refunded")
        IN  Ok([st EXCEPT !.htlcs = MapInsert(@, htlc_id, htlc),
                          !.active_htlcs = RemoveFromActive(@, htlc.sender, htlc_id),
                          !.events = Append(@, HTLCRefundedEvent(htlc_id, htlc)),
                          !.transfers = Append(@, Receipt("refund", htlc_id, env, promise))],
               promise)

(***************************************************************************)
(* Batch operations: the single operation applied to each entry in turn;   *)
(* a panic of one entry is a panic of the whole call.                      *)
(***************************************************************************)
RECURSIVE batch_refund_from(_, _, _, _)
batch_refund_from(st, env, htlc_ids_arg, promises) ==
    IF htlc_ids_arg = << >> THEN Ok(st, promises)
    ELSE LET r == refund(st, env, Head(htlc_ids_arg))
         IN  IF r.ok
             THEN batch_refund_from(r.st, env, Tail(htlc_ids_arg), Append(promises, r.ret))
             ELSE r

batch_refund(st, env, htlc_ids_arg) == batch_refund_from(st, env, htlc_ids_arg, << >>)

RECURSIVE batch_withdraw_from(_, _, _, _)
batch_withdraw_from(st, env, withdrawals, promises) ==
    IF withdrawals = << >> THEN Ok(st, promises)
    ELSE LET w == Head(withdrawals)
             r == withdraw(st, env, w[1], w[2])
         IN  IF r.ok
             THEN batch_withdraw_from(r.st, env, Tail(withdrawals), Append(promises, r.ret))
             ELSE r

batch_withdraw(st, env, withdrawals) == batch_withdraw_from(st, env, withdrawals, << >>)

\* First pass of batch_create_htlc: the sum of the native entries' amounts.
RECURSIVE total_required(_)
total_required(htlc_args) ==
    IF htlc_args = << >> THEN 0
    ELSE (IF Head(htlc_args).token = NEAR THEN Head(htlc_args).amount ELSE 0)
         + total_required(Tail(htlc_args))

\* Second pass of batch_create_htlc.
RECURSIVE batch_create_from(_, _, _, _)
batch_create_from(st, env, htlc_args, ids) ==
    IF htlc_args = << >> THEN Ok(st, ids)
    ELSE LET args == Head(htlc_args)
             r == internal_create_htlc(st, env, args, env.predecessor,
                      IF args.token = NEAR THEN args.amount ELSE 0)
         IN  IF r.ok
             THEN batch_create_from(r.st, env, Tail(htlc_args), Append(ids, r.ret))
             ELSE r

batch_create_htlc(st, env, htlc_args) ==
    IF env.attached_deposit # total_required(htlc_args)
    THEN Panic(st, ERR_BATCH_DEPOSIT)
    ELSE batch_create_from(st, env, htlc_args, << >>)

(***************************************************************************)
(* Administration.                                                         *)
(***************************************************************************)
ERR_ONLY_OWNER == "Only owner can call this method"

\* The mutant lets any account administer the contract.
assert_owner_Anyone(st, env) == TRUE

assert_owner(st, env) == env.predecessor = st.owner

add_supported_token(st, env, token) ==
    IF ~assert_owner(st, env) THEN Panic(st, ERR_ONLY_OWNER)
    ELSE Ok([st EXCEPT !.supported_tokens = @ \cup {token}], None)

remove_supported_token(st, env, token) ==
    IF ~assert_owner(st, env) THEN Panic(st, ERR_ONLY_OWNER)
    ELSE Ok([st EXCEPT !.supported_tokens = @ \ {token}], None)

set_eth_orchestrator(st, env, orchestrator) ==
    IF ~assert_owner(st, env) THEN Panic(st, ERR_ONLY_OWNER)
    ELSE Ok([st EXCEPT !.eth_orchestrator = orchestrator], None)

get_owner(st) == st.owner

is_token_supported(st, token) == token \in st.supported_tokens

\* Views.
get_htlc(st, htlc_id) ==
    IF htlc_id \in DOMAIN st.htlcs THEN Some(st.htlcs[htlc_id]) ELSE None

get_secret(st, htlc_id) ==
    IF htlc_id \in DOMAIN st.htlcs THEN st.htlcs[htlc_id].secret ELSE None

get_sender_htlcs(st, sender) ==
    IF sender \in DOMAIN st.active_htlcs THEN st.active_htlcs[sender] ELSE {}

get_cross_chain_info(st, htlc_id) ==
    IF htlc_id \in DOMAIN st.htlcs
    THEN Some([htlc_id |-> htlc_id, order_hash |-> st.htlcs[htlc_id].order_hash,
               hashlock |-> st.htlcs[htlc_id].hashlock, state |-> st.htlcs[htlc_id].state,
               secret |-> st.htlcs[htlc_id].secret])
    ELSE None

\* get_stats: the counts are the literal 0.
get_stats(st) ==
    Ok(st, [total_htlcs |-> 0, active_htlcs |-> 0, supported_tokens |-> 0,
            eth_orchestrator |-> st.eth_orchestrator])

\* A u64 (usize) argument is the integer itself, and u64::MAX (usize::MAX) is
\* its two's-complement reading -1, so that u64::MAX + 1 wraps to 0.  Small
\* values and the all-ones word are the same in a 32-bit and a 64-bit usize.
U64_MAX == -1

\* a > b on an unsigned b (a is a length).
UnsignedGt(a, b) == IF b < 0 THEN FALSE ELSE a > b

\* Iterator::skip and Iterator::take.
skip(seq, n) == IF n < 0 \/ n >= Len(seq) THEN << >> ELSE SubSeq(seq, n + 1, Len(seq))
take(seq, n) == IF n < 0 \/ n >= Len(seq) THEN seq ELSE SubSeq(seq, 1, n)

HTLCInfo(htlc_id, htlc) ==
    [htlc_id |-> htlc_id, sender |-> htlc.sender, receiver |-> htlc.receiver,
     amount |-> htlc.amount, hashlock |-> htlc.hashlock, timelock |-> htlc.timelock,
     state |-> htlc.state, order_hash |-> htlc.order_hash]

\* filter_map over the ids of a page: the stored records.
InfoOfStored(st, page) ==
    LET kept == SelectSeq(page, LAMBDA id : id \in DOMAIN st.htlcs)
    IN  [i \in 1..Len(kept) |-> HTLCInfo(kept[i], st.htlcs[kept[i]])]

\* The mutant keeps every stored record of the page.
InfoOfActive_NoFilter(st, page) ==
    LET kept == SelectSeq(page, LAMBDA id : id \in DOMAIN st.htlcs)
    IN  [i \in 1..Len(kept) |-> HTLCInfo(kept[i], st.htlcs[kept[i]])]

\* filter_map over the ids of a page: the stored records that are Active.
InfoOfActive(st, page) ==
    LET kept == SelectSeq(page, LAMBDA id : /\ id \in DOMAIN st.htlcs
                                           /\ st.htlcs[id].state = "Active")
    IN  [i \in 1..Len(kept) |-> HTLCInfo(kept[i], st.htlcs[kept[i]])]

get_active_htlcs(st, from_index, limit) ==
    Ok(st, InfoOfActive(st, take(skip(st.htlc_ids, from_index), limit)))

\* limit + 1 on u64: past u64::MAX the addition panics in a build with
\* overflow checks and wraps to 0 in a build without.
LimitPlusOne(limit) ==
    IF limit = U64_MAX THEN {[overflow |-> TRUE, value |-> 0], [overflow |-> FALSE, value |-> 0]}
    ELSE {[overflow |-> FALSE, value |-> limit + 1]}

\* "let has_more = htlcs.len() > limit as usize"
HasMore(fetched, limit) == UnsignedGt(fetched, limit)

\* get_htlcs_paginated: the outcomes the builds can produce.
get_htlcs_paginated(st, from_index, limit) ==
    {IF n.overflow THEN Panic(st, "attempt to add with overflow")
     ELSE LET fetched == InfoOfStored(st, take(skip(st.htlc_ids, from_index), n.value))
              has_more == HasMore(Len(fetched), limit)
          IN  Ok(st, <<IF has_more THEN SubSeq(fetched, 1, limit) ELSE fetched, has_more>>) :
     n \in LimitPlusOne(limit)}

\* "24 hours ago" of get_recent_events.
DaySecs == 86400

\* The EventLog variants.
EventLogCreated(htlc_id, htlc) ==
    [kind |-> "HTLCCreated", htlc_id |-> htlc_id, sender |-> htlc.sender,
     receiver |-> htlc.receiver, amount |-> ToString(htlc.amount),
     hashlock |-> htlc.hashlock, timelock |-> htlc.timelock]

EventLogSecretRevealed(htlc_id, htlc) ==
    [kind |-> "SecretRevealed", htlc_id |-> htlc_id, secret |-> htlc.secret[1],
     amount |-> ToString(htlc.amount)]

EventLogRefunded(htlc_id, htlc) ==
    [kind |-> "HTLCRefunded", htlc_id |-> htlc_id, sender |-> htlc.sender,
     amount |-> ToString(htlc.amount)]

\* The events the loop body of get_recent_events pushes for one record.
RecentEventsOf(htlc_id, htlc, from_timestamp) ==
    IF ~(htlc.created_at > from_timestamp) THEN << >>
    ELSE IF htlc.state = "Active" THEN <<EventLogCreated(htlc_id, htlc)>>
    ELSE IF htlc.state = "Withdrawn" /\ htlc.secret # None
         THEN <<EventLogSecretRevealed(htlc_id, htlc)>>
    ELSE IF htlc.state = "Refunded" THEN <<EventLogRefunded(htlc_id, htlc)>>
    ELSE << >>

\* The loop of get_recent_events over the ids still to visit, newest first
\* (pending, from its last entry down).  from_timestamp - 86400 is a u64
\* subtraction: below 86400 it panics in a build with overflow checks and
\* wraps to a value above every created_at in a build without.
RECURSIVE recent_events_loop(_, _, _, _, _)
recent_events_loop(st, pending, from_timestamp, overflow_checks, found) ==
    IF pending = << >> THEN Ok(st, found)
    ELSE
      LET htlc_id == pending[Len(pending)]
          rest == SubSeq(pending, 1, Len(pending) - 1)
      IN  IF htlc_id \notin DOMAIN st.htlcs
          THEN recent_events_loop(st, rest, from_timestamp, overflow_checks, found)
          ELSE
            LET htlc == st.htlcs[htlc_id]
                pushed == found \o RecentEventsOf(htlc_id, htlc, from_timestamp)
            IN  IF from_timestamp < DaySecs
                THEN IF overflow_checks
                     THEN Panic(st, "attempt to subtract with overflow")
                     ELSE Ok(st, pushed)
                ELSE IF htlc.created_at < from_timestamp - DaySecs
                     THEN Ok(st, pushed)
                     ELSE recent_events_loop(st, rest, from_timestamp, overflow_checks, pushed)

\* get_recent_events: the outcomes the builds can produce.
get_recent_events(st, env, from_timestamp) ==
    {recent_events_loop(st, st.htlc_ids, from_timestamp, overflow_checks, << >>) :
        overflow_checks \in BOOLEAN}

\* The mutant admits equal timelocks.
validate_cross_chain_timelock_Inclusive(st, near_timelock, base_timelock) ==
    Ok(st, near_timelock <= base_timelock)

validate_cross_chain_timelock(st, near_timelock, base_timelock) ==
    Ok(st, near_timelock < base_timelock)

(***************************************************************************)
(* The state machine.                                                      *)
(***************************************************************************)
Init ==
    /\ owner = Owner
    /\ htlcs = << >>
    /\ active_htlcs = << >>
    /\ eth_orchestrator = ""
    /\ supported_tokens = {}
    /\ htlc_ids = << >>
    /\ events = << >>
    /\ transfers = << >>
    /\ block_timestamp = 0

\* A successful call commits the state it computed; the clock is the chain's.
Commit(r) ==
    /\ r.ok
    /\ owner' = r.st.owner
    /\ htlcs' = r.st.htlcs
    /\ active_htlcs' = r.st.active_htlcs
    /\ eth_orchestrator' = r.st.eth_orchestrator
    /\ supported_tokens' = r.st.supported_tokens
    /\ htlc_ids' = r.st.htlc_ids
    /\ events' = r.st.events
    /\ transfers' = r.st.transfers
    /\ UNCHANGED block_timestamp

\* Ids a call may name: the stored ones and one that is never stored.
AbsentId == "nonexistent"
CallIds == (DOMAIN htlcs) \cup {AbsentId}

\* The inputs the calls of a specification are drawn from.
CoreInputs ==
    [callers |-> Accounts, ft_callers |-> {"usdc"}, tokens |-> TokenAccounts,
     senders |-> Users, receivers |-> Users, amounts |-> Amounts,
     hashlocks |-> {HashLower, HashBadChar}, timelocks |-> Timelocks,
     order_hashes |-> OrderHashes, secrets |-> Secrets,
     batch_args |-> {HTLCCreateArgs(receiver, token, amount, HashLower, MaxTimelock, None) :
                        receiver \in Users, token \in TokenAccounts, amount \in Amounts}]

CreateHtlc(in) ==
    /\ Len(htlc_ids) < MaxCreates
    /\ \E caller \in in.callers, deposit \in in.amounts, receiver \in in.receivers,
          hashlock \in in.hashlocks, timelock \in in.timelocks,
          order_hash \in in.order_hashes :
         Commit(create_htlc(Contract, Env(caller, deposit),
                  HTLCCreateArgs(receiver, NEAR, deposit, hashlock, timelock, order_hash)))

FtOnTransfer(in) ==
    /\ Len(htlc_ids) < MaxCreates
    /\ \E caller \in in.ft_callers, token \in in.tokens, sender_id \in in.senders,
          receiver \in in.receivers, amount \in in.amounts, declared \in in.amounts,
          hashlock \in in.hashlocks, timelock \in in.timelocks,
          order_hash \in in.order_hashes :
         Commit(ft_on_transfer(Contract, Env(caller, 0), sender_id, amount,
                  HTLCCreateArgs(receiver, token, declared, hashlock, timelock, order_hash)))

Withdraw(in) ==
    \E caller \in in.callers, htlc_id \in CallIds, secret \in in.secrets :
       Commit(withdraw(Contract, Env(caller, 0), htlc_id, secret))

Refund(in) ==
    \E caller \in in.callers, htlc_id \in CallIds :
       Commit(refund(Contract, Env(caller, 0), htlc_id))

\* The non-empty sequences of at most MaxBatch entries over a set (the empty
\* batch succeeds and changes nothing).
Batches(S) == UNION {[1..n -> S] : n \in 1..MaxBatch}

BatchRefund(in) ==
    \E caller \in in.callers, batch \in Batches(CallIds) :
       Commit(batch_refund(Contract, Env(caller, 0), batch))

BatchWithdraw(in) ==
    \E caller \in in.callers, batch \in Batches(CallIds \X in.secrets) :
       Commit(batch_withdraw(Contract, Env(caller, 0), batch))

BatchCreateHtlc(in) ==
    \E batch \in Batches(in.batch_args) :
       /\ Len(htlc_ids) + Len(batch) <= MaxCreates
       /\ \E caller \in in.callers, deposit \in 0..(MaxBatch * MaxAmount) :
            Commit(batch_create_htlc(Contract, Env(caller, deposit), batch))

AdvanceTime ==
    /\ block_timestamp < MaxBlocks * BlockNanos
    /\ block_timestamp' = block_timestamp + BlockNanos
    /\ UNCHANGED <<owner, htlcs, active_htlcs, eth_orchestrator, supported_tokens,
                   htlc_ids, events, transfers>>

Next ==
    \/ CreateHtlc(CoreInputs)
    \/ FtOnTransfer(CoreInputs)
    \/ Withdraw(CoreInputs)
    \/ Refund(CoreInputs)
    \/ BatchRefund(CoreInputs)
    \/ BatchWithdraw(CoreInputs)
    \/ BatchCreateHtlc(CoreInputs)
    \/ AdvanceTime

Spec == Init /\ [][Next]_vars

(***************************************************************************)
(* A second specification for the hash check: one sender, one receiver,    *)
(* one token and one amount, and every hashlock form offered to creation.  *)
(***************************************************************************)
HashInputs ==
    [callers |-> Users, ft_callers |-> {"usdc"}, tokens |-> {"usdc"},
     senders |-> {"al"}, receivers |-> {"al-al"}, amounts |-> {MaxAmount},
     hashlocks |-> Hashlocks, timelocks |-> Timelocks,
     order_hashes |-> OrderHashes, secrets |-> Secrets,
     batch_args |-> {}]

NextHash ==
    \/ FtOnTransfer(HashInputs)
    \/ Withdraw(HashInputs)
    \/ Refund(HashInputs)
    \/ AdvanceTime

SpecHash == Init /\ [][NextHash]_vars

(***************************************************************************)
(* A third specification for the progress of escrows: token deliveries     *)
(* between the users, and a chain on which time advances and the sender of *)
(* a refundable record does call refund.                                   *)
(***************************************************************************)
LiveInputs ==
    [callers |-> Users, ft_callers |-> {"usdc"}, tokens |-> {"usdc"},
     senders |-> Users, receivers |-> Users, amounts |-> {MaxAmount},
     hashlocks |-> {HashLower}, timelocks |-> Timelocks,
     order_hashes |-> OrderHashes, secrets |-> Secrets,
     batch_args |-> {}]

\* The ids the deliveries of this specification can produce.
LiveIds ==
    {generate_htlc_id(sender, receiver, k * BlockNanos) :
        sender \in Users, receiver \in Users, k \in 0..MaxBlocks}

\* The sender of the record under an id calls refund.
SenderRefunds(htlc_id) ==
    /\ htlc_id \in DOMAIN htlcs
    /\ Commit(refund(Contract, Env(htlcs[htlc_id].sender, 0), htlc_id))

NextLive ==
    \/ FtOnTransfer(LiveInputs)
    \/ Withdraw(LiveInputs)
    \/ Refund(LiveInputs)
    \/ AdvanceTime

SpecLive ==
    /\ Init
    /\ [][NextLive]_vars
    /\ WF_vars(AdvanceTime)
    /\ \A htlc_id \in LiveIds : WF_vars(SenderRefunds(htlc_id))

(***************************************************************************)
(* A fourth specification for the administration: the admin calls by every *)
(* account, beside deliveries of one token from one sender to one receiver *)
(* and their settlement.                                                   *)
(***************************************************************************)
Orchestrators == {"0xorchestrator", "0xother"}

AdminInputs ==
    [callers |-> Accounts, ft_callers |-> {"usdc"}, tokens |-> {"usdc"},
     senders |-> {"al-al"}, receivers |-> {"al"}, amounts |-> {MaxAmount},
     hashlocks |-> {HashLower}, timelocks |-> Timelocks,
     order_hashes |-> OrderHashes, secrets |-> Secrets,
     batch_args |-> {}]

SetEthOrchestrator(in) ==
    \E caller \in in.callers, orchestrator \in Orchestrators :
       Commit(set_eth_orchestrator(Contract, Env(caller, 0), orchestrator))

AddSupportedToken(in) ==
    \E caller \in in.callers, token \in TokenAccounts :
       Commit(add_supported_token(Contract, Env(caller, 0), token))

RemoveSupportedToken(in) ==
    \E caller \in in.callers, token \in TokenAccounts :
       Commit(remove_supported_token(Contract, Env(caller, 0), token))

NextAdmin ==
    \/ SetEthOrchestrator(AdminInputs)
    \/ AddSupportedToken(AdminInputs)
    \/ RemoveSupportedToken(AdminInputs)
    \/ FtOnTransfer(AdminInputs)
    \/ Withdraw(AdminInputs)
    \/ Refund(AdminInputs)
    \/ AdvanceTime

SpecAdmin == Init /\ [][NextAdmin]_vars

(***************************************************************************)
(* A fifth specification for the monitoring views and the hash function:   *)
(* deliveries of one token from one sender to one receiver with a timelock *)
(* one second beyond the others, so that records are created in different  *)
(* seconds, locked with the Keccak-256 or the SHA-256 digest of the secret.*)
(***************************************************************************)
MonitorInputs ==
    [callers |-> Users, ft_callers |-> {"usdc"}, tokens |-> {"usdc"},
     senders |-> {"al"}, receivers |-> {"al-al"}, amounts |-> {MaxAmount},
     hashlocks |-> {HashLower, HashSha256},
     timelocks |-> {MaxTimelock + 1, MaxTimelock + 2},
     order_hashes |-> OrderHashes, secrets |-> Secrets,
     batch_args |-> {}]

NextMonitor ==
    \/ FtOnTransfer(MonitorInputs)
    \/ Withdraw(MonitorInputs)
    \/ Refund(MonitorInputs)
    \/ AdvanceTime

SpecMonitor == Init /\ [][NextMonitor]_vars

(***************************************************************************)
(* The properties.                                                         *)
(***************************************************************************)
NowSec == block_timestamp \div NanosPerSec

TerminalStates == {"Withdrawn", "Refunded"}

\* The ids for which the event stream holds a Withdrawn (a Refunded) event.
WithdrawnEventIds == {events[i].htlc_id : i \in {j \in DOMAIN events : IsWithdrawnEvent(events[j])}}
RefundedEventIds == {events[i].htlc_id : i \in {j \in DOMAIN events : IsRefundedEvent(events[j])}}

\* The receipts issued for an id.
ReceiptsFor(htlc_id) == {i \in DOMAIN transfers : transfers[i].htlc_id = htlc_id}

\* C1: every stored record's state is Active, Withdrawn or Refunded, and a
\* record that is Withdrawn or Refunded keeps that state under its id in
\* every later state.
C1_StateExclusivity ==
    [][ /\ \A id \in DOMAIN htlcs' :
             htlcs'[id].state \in {"Active", "Withdrawn", "Refunded"}
        /\ \A id \in DOMAIN htlcs :
             htlcs[id].state \in TerminalStates =>
                 id \in DOMAIN htlcs' /\ htlcs'[id].state = htlcs[id].state ]_vars

\* C2: no id ever has both a successful withdraw and a successful refund.
C2_MutualExclusion == WithdrawnEventIds \cap RefundedEventIds = {}

\* C3: a stored record holds a secret exactly when it is Withdrawn, and
\* get_secret returns nothing for an Active or Refunded record.
C3_SecretPresence ==
    \A id \in DOMAIN htlcs :
       /\ (htlcs[id].secret # None) <=> (htlcs[id].state = "Withdrawn")
       /\ htlcs[id].state \in {"Active", "Refunded"} => get_secret(Contract, id) = None

C3_Witness ==
    \E id \in DOMAIN htlcs, other \in DOMAIN htlcs :
       /\ htlcs[id].state = "Withdrawn"
       /\ get_secret(Contract, id) = Some("mysecret")
       /\ htlcs[other].state = "Refunded"

\* C4: for an Active record, the receiver's withdraw with a matching secret
\* succeeds exactly when the current second is before the timelock, and the
\* sender's refund succeeds exactly when it is at or after the timelock.
C4_TimelockBoundary ==
    \A id \in DOMAIN htlcs :
       htlcs[id].state = "Active" =>
          /\ \A secret \in Secrets :
                validate_secret(secret, htlcs[id].hashlock) =>
                   (withdraw(Contract, Env(htlcs[id].receiver, 0), id, secret).ok
                       <=> NowSec < htlcs[id].timelock)
          /\ refund(Contract, Env(htlcs[id].sender, 0), id).ok
                <=> NowSec >= htlcs[id].timelock

\* A record refunded in the very second of its timelock, beside a record that
\* is still Active in the second of its timelock.
C4_Witness ==
    /\ \E i \in DOMAIN transfers :
          /\ transfers[i].op = "refund"
          /\ htlcs[transfers[i].htlc_id].state = "Refunded"
          /\ transfers[i].at \div NanosPerSec = htlcs[transfers[i].htlc_id].timelock
    /\ \E id \in DOMAIN htlcs :
          /\ htlcs[id].state = "Active"
          /\ NowSec = htlcs[id].timelock
          /\ validate_secret("mysecret", htlcs[id].hashlock)

\* C5: withdraw and refund on a record that is no longer Active fail with the
\* not-active error and request no transfer, and no id ever has more than one
\* transfer requested for it.
C5_IdempotentRejection ==
    /\ \A id \in DOMAIN htlcs :
          htlcs[id].state # "Active" =>
             \A caller \in Accounts :
                /\ \A secret \in Secrets :
                      LET w == withdraw(Contract, Env(caller, 0), id, secret)
                      IN  ~w.ok /\ w.err = ERR_HTLC_NOT_ACTIVE /\ w.st.transfers = transfers
                /\ LET r == refund(Contract, Env(caller, 0), id)
                   IN  ~r.ok /\ r.err = ERR_HTLC_NOT_ACTIVE /\ r.st.transfers = transfers
    /\ \A id \in DOMAIN htlcs : Cardinality(ReceiptsFor(id)) <= 1

\* char::to_ascii_lowercase on a hex digit.
to_ascii_lowercase(c) ==
    CASE c = "A" -> "a" [] c = "B" -> "b" [] c = "C" -> "c"
      [] c = "D" -> "d" [] c = "E" -> "e" [] c = "F" -> "f"
      [] OTHER -> c

\* A hashlock without its prefix and in lower case.
NormalisedHashlock(hashlock) ==
    LET clean == trim_start_matches_0x(hashlock)
    IN  [i \in 1..Len(clean) |-> to_ascii_lowercase(clean[i])]

\* C6: for an Active record before its timelock, the receiver's withdraw
\* succeeds exactly when the digest of the secret equals the stored hashlock
\* up to letter case and the 0x prefix.
C6_HashCorrectness ==
    \A id \in DOMAIN htlcs, secret \in Secrets :
       (htlcs[id].state = "Active" /\ NowSec < htlcs[id].timelock) =>
          (withdraw(Contract, Env(htlcs[id].receiver, 0), id, secret).ok
              <=> Keccak256Hex(secret) = NormalisedHashlock(htlcs[id].hashlock))

\* The payout a terminal operation is to request for a record.
IsPayout(promise, htlc, beneficiary) ==
    IF htlc.token = NEAR
    THEN /\ promise.action = "transfer"
         /\ promise.target = beneficiary
         /\ promise.deposit = htlc.amount
    ELSE /\ promise.action = "ft_transfer"
         /\ promise.target = htlc.token
         /\ promise.args # None
         /\ promise.args[1].receiver_id = beneficiary
         /\ promise.args[1].amount = ToString(htlc.amount)

\* The call added exactly one receipt to the receipts, for this id and promise.
OneMoreReceipt(st, htlc_id, promise) ==
    /\ Len(st.transfers) = Len(transfers) + 1
    /\ SubSeq(st.transfers, 1, Len(transfers)) = transfers
    /\ st.transfers[Len(st.transfers)].htlc_id = htlc_id
    /\ st.transfers[Len(st.transfers)].promise = promise

\* C7: a successful withdraw(id, secret) turns the Active record Withdrawn,
\* stores the supplied secret, takes id out of the sender's active set and
\* requests exactly one transfer, of the record's amount of the record's
\* asset to the record's receiver.
C7_WithdrawEffect ==
    \A caller \in Accounts, id \in CallIds, secret \in Secrets :
       LET r == withdraw(Contract, Env(caller, 0), id, secret) IN
       r.ok =>
          /\ htlcs[id].state = "Active"
          /\ r.st.htlcs[id].state = "Withdrawn"
          /\ r.st.htlcs[id].secret = Some(secret)
          /\ id \notin get_sender_htlcs(r.st, htlcs[id].sender)
          /\ OneMoreReceipt(r.st, id, r.ret)
          /\ IsPayout(r.ret, htlcs[id], htlcs[id].receiver)

\* A native record and a token record, both withdrawn.
C7_Witness ==
    \E i \in DOMAIN transfers, j \in DOMAIN transfers :
       /\ transfers[i].op = "withdraw" /\ transfers[i].promise.action = "ft_transfer"
       /\ htlcs[transfers[i].htlc_id].state = "Withdrawn"
       /\ transfers[j].op = "withdraw" /\ transfers[j].promise.action = "transfer"
       /\ htlcs[transfers[j].htlc_id].state = "Withdrawn"

\* C8: a successful refund(id) turns the Active record Refunded, leaves the
\* secret absent, takes id out of the sender's active set and requests
\* exactly one transfer, of the record's amount of the record's asset to the
\* record's sender.
C8_RefundEffect ==
    \A caller \in Accounts, id \in CallIds :
       LET r == refund(Contract, Env(caller, 0), id) IN
       r.ok =>
          /\ htlcs[id].state = "Active"
          /\ r.st.htlcs[id].state = "Refunded"
          /\ r.st.htlcs[id].secret = None
          /\ id \notin get_sender_htlcs(r.st, htlcs[id].sender)
          /\ OneMoreReceipt(r.st, id, r.ret)
          /\ IsPayout(r.ret, htlcs[id], htlcs[id].sender)

\* A native record and a token record, both refunded.
C8_Witness ==
    \E i \in DOMAIN transfers, j \in DOMAIN transfers :
       /\ transfers[i].op = "refund" /\ transfers[i].promise.action = "ft_transfer"
       /\ htlcs[transfers[i].htlc_id].state = "Refunded"
       /\ transfers[j].op = "refund" /\ transfers[j].promise.action = "transfer"
       /\ htlcs[transfers[j].htlc_id].state = "Refunded"

\* C9: create_htlc by any account with a positive deposit, a valid hashlock
\* and a timelock in the future succeeds and stores an Active record of the
\* caller, the receiver and the deposit, without a secret.
C9_CreateHtlcSucceeds ==
    \A caller \in Accounts, deposit \in 1..MaxAmount, receiver \in Users,
       hashlock \in Hashlocks, timelock \in Timelocks :
       (validate_hashlock(hashlock) /\ timelock > NowSec) =>
          LET r == create_htlc(Contract, Env(caller, deposit),
                      HTLCCreateArgs(receiver, NEAR, deposit, hashlock, timelock, None))
          IN  /\ r.ok
              /\ get_htlc(r.st, r.ret) # None
              /\ get_htlc(r.st, r.ret)[1].state = "Active"
              /\ get_htlc(r.st, r.ret)[1].sender = caller
              /\ get_htlc(r.st, r.ret)[1].receiver = receiver
              /\ get_htlc(r.st, r.ret)[1].amount = deposit
              /\ get_htlc(r.st, r.ret)[1].secret = None

\* A hashlock of 64 hex characters after its 0x prefix, if any, is taken off.
StripPrefix(hashlock) ==
    IF Len(hashlock) >= 2 /\ hashlock[1] = "0" /\ hashlock[2] = "x"
    THEN SubSeq(hashlock, 3, Len(hashlock))
    ELSE hashlock

Is64Hex(hashlock) ==
    /\ Len(StripPrefix(hashlock)) = HashHexLen
    /\ \A i \in 1..Len(StripPrefix(hashlock)) : is_ascii_hexdigit(StripPrefix(hashlock)[i])

\* C10: a creation whose hashlock is not 64 hex characters after the 0x
\* prefix, or whose timelock is not after the current second, fails and
\* changes neither the records, the active sets, the id list nor the events.
C10_InvalidCreationRejected ==
    \A hashlock \in Hashlocks, timelock \in Timelocks, receiver \in Users :
       (~Is64Hex(hashlock) \/ timelock <= NowSec) =>
          /\ \A caller \in Accounts, deposit \in Amounts :
                LET r == create_htlc(Contract, Env(caller, deposit),
                            HTLCCreateArgs(receiver, NEAR, deposit, hashlock, timelock, None))
                IN  ~r.ok /\ r.st = Contract
          /\ \A caller \in TokenAccounts, token \in TokenAccounts, sender_id \in Users,
                amount \in Amounts, declared \in Amounts :
                LET r == ft_on_transfer(Contract, Env(caller, 0), sender_id, amount,
                            HTLCCreateArgs(receiver, token, declared, hashlock, timelock, None))
                IN  ~r.ok /\ r.st = Contract

\* C11: on both creation paths a request whose declared amount differs from
\* the amount custodied (the attached deposit, the delivered token amount) is
\* rejected, and a creation that succeeds stores the declared amount, which is
\* the amount custodied.
C11_DeclaredAmountCustodied ==
    \A receiver \in Users, declared \in Amounts, custodied \in Amounts :
       /\ \A caller \in Accounts :
             LET r == create_htlc(Contract, Env(caller, custodied),
                         HTLCCreateArgs(receiver, NEAR, declared, HashLower, MaxTimelock, None))
             IN  /\ declared # custodied => ~r.ok
                 /\ r.ok => r.st.htlcs[r.ret].amount = declared
                 /\ r.ok => r.st.htlcs[r.ret].amount = custodied
       /\ \A caller \in TokenAccounts, sender_id \in Users :
             LET r == ft_on_transfer(Contract, Env(caller, 0), sender_id, custodied,
                         HTLCCreateArgs(receiver, caller, declared, HashLower, MaxTimelock, None))
                 id == generate_htlc_id(sender_id, receiver, block_timestamp)
             IN  /\ declared # custodied => ~r.ok
                 /\ r.ok => r.st.htlcs[id].amount = declared
                 /\ r.ok => r.st.htlcs[id].amount = custodied

\* The records the call outcome r stored or replaced.
StoredBy(r) ==
    {id \in DOMAIN r.st.htlcs : id \notin DOMAIN htlcs \/ r.st.htlcs[id] # htlcs[id]}

CreationOutcomes ==
    {LET r == create_htlc(Contract, Env(caller, amount),
                 HTLCCreateArgs(receiver, NEAR, amount, HashLower, MaxTimelock, None))
     IN  [r EXCEPT !.ret = IF r.ok THEN r.ret ELSE ""] :
        caller \in Accounts, receiver \in Users, amount \in Amounts}
    \cup
    {LET r == ft_on_transfer(Contract, Env(token, 0), sender_id, amount,
                 HTLCCreateArgs(receiver, token, amount, HashLower, MaxTimelock, None))
     IN  [r EXCEPT !.ret = IF r.ok
                           THEN generate_htlc_id(sender_id, receiver, block_timestamp)
                           ELSE ""] :
        token \in TokenAccounts, sender_id \in Users, receiver \in Users, amount \in Amounts}

\* C13: every successful creation returns an id under which no record
\* existed before the call, also for two creations by one sender to one
\* receiver at one block timestamp; the id list never names an id twice.
C13_FreshId ==
    /\ \A r \in CreationOutcomes : r.ok => r.ret \notin DOMAIN htlcs
    /\ \A i, j \in DOMAIN htlc_ids : htlc_ids[i] = htlc_ids[j] => i = j

\* The fields of a record that are fixed at its creation.
CreationFields(htlc) ==
    [sender |-> htlc.sender, receiver |-> htlc.receiver, token |-> htlc.token,
     amount |-> htlc.amount, hashlock |-> htlc.hashlock, timelock |-> htlc.timelock,
     created_at |-> htlc.created_at, order_hash |-> htlc.order_hash]

\* C14: a record that exists under an id exists under it in every later
\* state, with the same sender, receiver, asset, amount, hashlock, timelock,
\* created_at and order_hash.
C14_RecordImmutability ==
    [][\A id \in DOMAIN htlcs :
          /\ id \in DOMAIN htlcs'
          /\ CreationFields(htlcs'[id]) = CreationFields(htlcs[id])]_vars

\* C15: an id is returned by get_sender_htlcs(S) exactly when a record exists
\* under it whose sender is S and whose state is Active.
C15_ActiveSetConsistency ==
    \A S \in Accounts, id \in CallIds \cup UNION {get_sender_htlcs(Contract, A) : A \in Accounts} :
       id \in get_sender_htlcs(Contract, S)
          <=> (id \in DOMAIN htlcs /\ htlcs[id].sender = S /\ htlcs[id].state = "Active")

\* C16: once a withdraw stored a secret under an id, get_secret and
\* get_cross_chain_info return that secret for the id in every later state.
C16_SecretRetained ==
    [][\A id \in DOMAIN htlcs :
          htlcs[id].secret # None =>
             /\ get_secret([htlcs |-> htlcs'], id) = htlcs[id].secret
             /\ get_cross_chain_info([htlcs |-> htlcs'], id) # None
             /\ get_cross_chain_info([htlcs |-> htlcs'], id)[1].secret = htlcs[id].secret]_vars

\* C17: on an Active record, withdraw by a caller other than the receiver
\* fails whatever the secret and the time, refund by a caller other than the
\* sender fails whatever the time, and neither changes the record.
C17_OnlyBeneficiary ==
    \A id \in DOMAIN htlcs :
       htlcs[id].state = "Active" =>
          \A caller \in Accounts :
             /\ caller # htlcs[id].receiver =>
                   \A secret \in Secrets :
                      LET w == withdraw(Contract, Env(caller, 0), id, secret)
                      IN  ~w.ok /\ w.st.htlcs[id] = htlcs[id]
             /\ caller # htlcs[id].sender =>
                   LET r == refund(Contract, Env(caller, 0), id)
                   IN  ~r.ok /\ r.st.htlcs[id] = htlcs[id]

\* An Active record at its expiry, of a sender other than its receiver: the
\* sender's withdraw with the matching secret and the receiver's refund are
\* both turned down as unauthorized.
C17_Witness ==
    \E id \in DOMAIN htlcs :
       /\ htlcs[id].state = "Active"
       /\ htlcs[id].sender # htlcs[id].receiver
       /\ NowSec >= htlcs[id].timelock
       /\ validate_secret("mysecret", htlcs[id].hashlock)
       /\ withdraw(Contract, Env(htlcs[id].sender, 0), id, "mysecret").err = ERR_UNAUTHORIZED
       /\ refund(Contract, Env(htlcs[id].receiver, 0), id).err = ERR_UNAUTHORIZED
       /\ refund(Contract, Env(htlcs[id].sender, 0), id).ok

\* The messages of the failing withdraw and refund calls in the current state.
FailuresNow ==
    {withdraw(Contract, Env(caller, 0), id, secret).err :
        caller \in Accounts, id \in CallIds, secret \in Secrets}
    \cup {refund(Contract, Env(caller, 0), id).err : caller \in Accounts, id \in CallIds}

\* C18: a withdraw or a refund that fails leaves the whole contract state as
\* it was: records, active sets, id list, events and requested transfers.
C18_FailureFrame ==
    \A caller \in Accounts, id \in CallIds :
       /\ \A secret \in Secrets :
             LET w == withdraw(Contract, Env(caller, 0), id, secret)
             IN  ~w.ok => w.st = Contract
       /\ LET r == refund(Contract, Env(caller, 0), id)
          IN  ~r.ok => r.st = Contract

\* A state with a settled and an Active record, in which calls fail for an
\* absent id, a settled record, a wrong caller, a wrong secret and an early
\* refund.
C18_Witness ==
    /\ \E id \in DOMAIN htlcs : htlcs[id].state \in TerminalStates
    /\ {ERR_HTLC_NOT_FOUND, ERR_HTLC_NOT_ACTIVE, ERR_UNAUTHORIZED, ERR_INVALID_SECRET,
        ERR_TIMELOCK_NOT_EXPIRED} \subseteq FailuresNow

\* The timelocks a counterpart escrow may have.
CounterpartTimelocks == 0..(MaxTimelock + 1)

\* C19: validate_cross_chain_timelock(near_timelock, base_timelock) is true
\* exactly when near_timelock < base_timelock, false for equal timelocks, and
\* changes no state.
C19_OrderingPredicate ==
    \A near_timelock \in CounterpartTimelocks, base_timelock \in CounterpartTimelocks :
       LET r == validate_cross_chain_timelock(Contract, near_timelock, base_timelock)
       IN  /\ r.ok
           /\ r.ret = TRUE <=> near_timelock < base_timelock
           /\ near_timelock = base_timelock => r.ret = FALSE
           /\ r.st = Contract

\* A stored record whose timelock is refused against an equal counterpart
\* timelock and against an earlier one, and accepted against a later one.
C19_Witness ==
    \E id \in DOMAIN htlcs :
       /\ validate_cross_chain_timelock(Contract, htlcs[id].timelock, htlcs[id].timelock).ret = FALSE
       /\ validate_cross_chain_timelock(Contract, htlcs[id].timelock, htlcs[id].timelock - 1).ret = FALSE
       /\ validate_cross_chain_timelock(Contract, htlcs[id].timelock, htlcs[id].timelock + 1).ret = TRUE

\* C20: when validate_cross_chain_timelock(d, s) holds for the timelock d of
\* an Active record and the timelock s of the counterpart, a withdraw of the
\* record that succeeds does so at a second t with t < d < s, and the
\* sender's refund succeeds from second d on, so whenever the counterpart is
\* refundable (second s or later) this record already is.
C20_CrossChainOrdering ==
    \A id \in DOMAIN htlcs, s \in CounterpartTimelocks :
       LET d == htlcs[id].timelock IN
       (htlcs[id].state = "Active" /\ validate_cross_chain_timelock(Contract, d, s).ret) =>
          /\ \A caller \in Accounts, secret \in Secrets :
                withdraw(Contract, Env(caller, 0), id, secret).ok => (NowSec < d /\ d < s)
          /\ refund(Contract, Env(htlcs[id].sender, 0), id).ok <=> NowSec >= d
          /\ NowSec >= s => NowSec > d /\ refund(Contract, Env(htlcs[id].sender, 0), id).ok

\* A record withdrawn before its timelock, beside an Active record at its
\* timelock that is refundable one second before its counterpart.
C20_Witness ==
    /\ \E i \in DOMAIN transfers :
          /\ transfers[i].op = "withdraw"
          /\ transfers[i].at \div NanosPerSec < htlcs[transfers[i].htlc_id].timelock
    /\ \E id \in DOMAIN htlcs :
          /\ htlcs[id].state = "Active"
          /\ NowSec = htlcs[id].timelock
          /\ validate_cross_chain_timelock(Contract, htlcs[id].timelock, htlcs[id].timelock + 1).ret
          /\ refund(Contract, Env(htlcs[id].sender, 0), id).ok

\* C21: a successful creation adds exactly one Created event with the stored
\* id, sender, receiver, asset, amount, hashlock, timelock and order_hash, a
\* successful withdraw exactly one Withdrawn event (id, receiver, secret,
\* amount), a successful refund exactly one Refunded event (id, sender,
\* amount), and a failed create, withdraw or refund adds no event.
C21_EventPerTransition ==
    /\ \A r \in CreationOutcomes :
          IF r.ok
          THEN LET htlc == r.st.htlcs[r.ret] IN
               r.st.events = Append(events,
                  [htlc_id |-> r.ret, sender |-> htlc.sender, receiver |-> htlc.receiver,
                   token |-> htlc.token, amount |-> htlc.amount, hashlock |-> htlc.hashlock,
                   timelock |-> htlc.timelock, order_hash |-> htlc.order_hash])
          ELSE r.st.events = events
    /\ \A caller \in Accounts, id \in CallIds :
          /\ \A secret \in Secrets :
                LET w == withdraw(Contract, Env(caller, 0), id, secret) IN
                IF w.ok
                THEN w.st.events = Append(events,
                        [htlc_id |-> id, receiver |-> htlcs[id].receiver, secret |-> secret,
                         amount |-> htlcs[id].amount])
                ELSE w.st.events = events
          /\ LET r == refund(Contract, Env(caller, 0), id) IN
             IF r.ok
             THEN r.st.events = Append(events,
                     [htlc_id |-> id, sender |-> htlcs[id].sender, amount |-> htlcs[id].amount])
             ELSE r.st.events = events

\* An event stream with a Created, a Withdrawn and a Refunded event, one per
\* call that succeeded.
C21_Witness ==
    /\ \E i \in DOMAIN events : IsWithdrawnEvent(events[i]) /\ events[i].secret = "mysecret"
    /\ \E i \in DOMAIN events : IsRefundedEvent(events[i])
    /\ Cardinality({i \in DOMAIN events : IsCreatedEvent(events[i])}) = Len(htlc_ids)
    /\ Len(events) = Len(htlc_ids) + Len(transfers)

\* The positions of the events of an id, by kind.
CreatedAt(htlc_id) ==
    {i \in DOMAIN events : IsCreatedEvent(events[i]) /\ events[i].htlc_id = htlc_id}
TerminalAt(htlc_id) ==
    {i \in DOMAIN events : ~IsCreatedEvent(events[i]) /\ events[i].htlc_id = htlc_id}

\* C22: for every id of the event stream there is exactly one Created event,
\* it precedes every Withdrawn and Refunded event of the id, and the id has
\* at most one Withdrawn or Refunded event.
C22_EventOrdering ==
    \A id \in {events[i].htlc_id : i \in DOMAIN events} :
       /\ Cardinality(CreatedAt(id)) = 1
       /\ \A c \in CreatedAt(id), t \in TerminalAt(id) : c < t
       /\ Cardinality(TerminalAt(id)) <= 1

\* The contract state once the call with outcome r is over: the state the
\* call computed, or the state it started from when it panicked.
After(r) == IF r.ok THEN r.st ELSE Contract

\* C23: batch_refund settles each id on refund's own preconditions: an id
\* that the caller's refund would settle ends Refunded with its transfer
\* requested, whatever becomes of the other ids of the batch.
C23_BatchRefundIndependent ==
    \A caller \in Accounts, batch \in Batches(CallIds) :
       \A k \in DOMAIN batch :
          refund(Contract, Env(caller, 0), batch[k]).ok =>
             LET st == After(batch_refund(Contract, Env(caller, 0), batch)) IN
             /\ st.htlcs[batch[k]].state = "Refunded"
             /\ \E i \in DOMAIN st.transfers :
                   /\ i > Len(transfers)
                   /\ st.transfers[i].htlc_id = batch[k]
                   /\ st.transfers[i].op = "refund"

\* C24: a record for which a transfer was requested is Withdrawn or Refunded
\* from the call that requested it on, whatever becomes of the transfer: it
\* stays in that state in every later state and no further transfer is
\* requested for its id.
C24_NoRollback ==
    [][\A i \in DOMAIN transfers :
          LET id == transfers[i].htlc_id IN
          /\ htlcs'[id].state \in TerminalStates
          /\ htlcs'[id].state = htlcs[id].state
          /\ {j \in DOMAIN transfers' : transfers'[j].htlc_id = id}
                = {j \in DOMAIN transfers : transfers[j].htlc_id = id}]_vars

\* An Active record whose timelock is reached: no withdraw succeeds and the
\* sender's refund does.
ExpiredIsRefundOnly ==
    \A id \in DOMAIN htlcs :
       (htlcs[id].state = "Active" /\ NowSec >= htlcs[id].timelock) =>
          /\ \A caller \in Accounts, secret \in Secrets :
                ~withdraw(Contract, Env(caller, 0), id, secret).ok
          /\ refund(Contract, Env(htlcs[id].sender, 0), id).ok

PageArgs == (0..(MaxCreates + 1)) \cup {U64_MAX}

\* The positions of the id list from from_index on, limit of them at most.
PagePositions(from_index, limit) ==
    {p \in DOMAIN htlc_ids :
        /\ from_index # U64_MAX /\ p > from_index
        /\ limit = U64_MAX \/ p <= from_index + limit}

\* C26: get_htlcs_paginated(from_index, limit) returns the records of the ids
\* at the positions from_index .. from_index+limit-1 of the id list, in the
\* order of the list and in their current state, and has_more is true
\* exactly when the id list has more than from_index + limit entries.
C26_Pagination ==
    \A from_index \in PageArgs, limit \in PageArgs :
       \A r \in get_htlcs_paginated(Contract, from_index, limit) :
          LET positions == PagePositions(from_index, limit) IN
          /\ r.ok
          /\ Len(r.ret[1]) = Cardinality(positions)
          /\ \A i \in DOMAIN r.ret[1] :
                r.ret[1][i] = HTLCInfo(htlc_ids[from_index + i], htlcs[htlc_ids[from_index + i]])
          /\ r.ret[2] <=> \E p \in DOMAIN htlc_ids :
                             from_index # U64_MAX /\ limit # U64_MAX /\ p > from_index + limit

\* C27: get_stats().total_htlcs is the number of stored records and
\* get_stats().active_htlcs the number of Active records.
C27_StatsReflectStore ==
    /\ get_stats(Contract).ret.total_htlcs = Cardinality(DOMAIN htlcs)
    /\ get_stats(Contract).ret.active_htlcs
          = Cardinality({id \in DOMAIN htlcs : htlcs[id].state = "Active"})

\* The outcomes of the admin calls of an account in the current state, each
\* with the state the call is to produce when it is the owner's.
AdminOutcomes(caller) ==
    {<<set_eth_orchestrator(Contract, Env(caller, 0), orchestrator),
       [Contract EXCEPT !.eth_orchestrator = orchestrator]>> :
        orchestrator \in Orchestrators}
    \cup {<<add_supported_token(Contract, Env(caller, 0), token),
            [Contract EXCEPT !.supported_tokens = @ \cup {token}]>> : token \in TokenAccounts}
    \cup {<<remove_supported_token(Contract, Env(caller, 0), token),
            [Contract EXCEPT !.supported_tokens = @ \ {token}]>> : token \in TokenAccounts}

\* C28: set_eth_orchestrator, add_supported_token and remove_supported_token
\* succeed exactly for the owner given at initialisation and then change
\* nothing but the orchestrator address or the supported-token set; called by
\* another account they fail and change nothing; the owner never changes.
C28_OwnerOnlyAdmin ==
    /\ owner = Owner
    /\ get_owner(Contract) = Owner
    /\ \A caller \in Accounts :
          \A o \in AdminOutcomes(caller) :
             /\ o[1].ok <=> caller = Owner
             /\ o[1].ok => o[1].st = o[2]
             /\ ~o[1].ok => o[1].st = Contract

\* The orchestrator is set and a token is supported, beside a settled record
\* and an Active one, and the receiver of the records is refused as admin.
C28_Witness ==
    /\ eth_orchestrator = "0xother"
    /\ is_token_supported(Contract, "usdc")
    /\ ~is_token_supported(Contract, NEAR)
    /\ \E id \in DOMAIN htlcs : htlcs[id].state \in TerminalStates
    /\ set_eth_orchestrator(Contract, Env("al-al", 0), "0xorchestrator").err = ERR_ONLY_OWNER
    /\ remove_supported_token(Contract, Env("usdc", 0), "usdc").err = ERR_ONLY_OWNER

\* The message withdraw is to fail with: the first violated condition in the
\* order record, state, caller, secret, time ("" when none is violated).
WithdrawFailure(caller, id, secret) ==
    IF id \notin DOMAIN htlcs THEN ERR_HTLC_NOT_FOUND
    ELSE IF htlcs[id].state # "Active" THEN ERR_HTLC_NOT_ACTIVE
    ELSE IF caller # htlcs[id].receiver THEN ERR_UNAUTHORIZED
    ELSE IF ~validate_secret(secret, htlcs[id].hashlock) THEN ERR_INVALID_SECRET
    ELSE IF NowSec >= htlcs[id].timelock THEN ERR_WITHDRAWAL_EXPIRED
    ELSE ""

\* The message refund is to fail with, in the order record, state, caller, time.
RefundFailure(caller, id) ==
    IF id \notin DOMAIN htlcs THEN ERR_HTLC_NOT_FOUND
    ELSE IF htlcs[id].state # "Active" THEN ERR_HTLC_NOT_ACTIVE
    ELSE IF caller # htlcs[id].sender THEN ERR_UNAUTHORIZED
    ELSE IF NowSec < htlcs[id].timelock THEN ERR_TIMELOCK_NOT_EXPIRED
    ELSE ""

\* C29: a failed withdraw reports the first violated condition in the order
\* not found, not active, unauthorized, invalid secret, withdrawal expired,
\* and a failed refund in the order not found, not active, unauthorized,
\* timelock not expired.
C29_FailureOrder ==
    \A caller \in Accounts, id \in CallIds :
       /\ \A secret \in Secrets :
             LET w == withdraw(Contract, Env(caller, 0), id, secret)
             IN  /\ w.err = WithdrawFailure(caller, id, secret)
                 /\ w.ok <=> WithdrawFailure(caller, id, secret) = ""
       /\ LET r == refund(Contract, Env(caller, 0), id)
          IN  /\ r.err = RefundFailure(caller, id)
              /\ r.ok <=> RefundFailure(caller, id) = ""

\* After the expiry, beside a Refunded record for which the receiver's
\* withdraw with the right secret reports not-active: an Active record for
\* which a stranger with a wrong secret is reported unauthorized and the
\* receiver with a wrong secret is reported an invalid secret.
C29_Witness ==
    /\ \E id \in DOMAIN htlcs :
          /\ htlcs[id].state = "Refunded"
          /\ withdraw(Contract, Env(htlcs[id].receiver, 0), id, "mysecret").err
                = ERR_HTLC_NOT_ACTIVE
    /\ \E id \in DOMAIN htlcs :
          /\ htlcs[id].state = "Active" /\ NowSec >= htlcs[id].timelock
          /\ htlcs[id].sender # htlcs[id].receiver
          /\ withdraw(Contract, Env(htlcs[id].sender, 0), id, "mysecreu").err = ERR_UNAUTHORIZED
          /\ withdraw(Contract, Env(htlcs[id].receiver, 0), id, "mysecreu").err
                = ERR_INVALID_SECRET
          /\ withdraw(Contract, Env(htlcs[id].receiver, 0), id, "mysecret").err
                = ERR_WITHDRAWAL_EXPIRED

\* The limit of the listing of Active records: above any number of creations.
ListLimit == MaxCreates + 1

\* The number of entries get_active_htlcs(0, ListLimit) returns in a state.
ActiveListed(st) == Len(get_active_htlcs(st, 0, ListLimit).ret)

\* The number of Active records of a state.
ActiveStored(st) == Cardinality({id \in DOMAIN st.htlcs : st.htlcs[id].state = "Active"})

\* C30: every successful create_htlc, also by one sender to one receiver in
\* one block, returns an id no earlier creation returned and adds one Active
\* record, so that get_active_htlcs(0, limit) lists one entry per creation
\* that is not settled; each successful withdraw or refund takes exactly one
\* entry off the list.
C30_ActiveTracking ==
    /\ \A r \in CreationOutcomes :
          r.ok => /\ \A i \in DOMAIN htlc_ids : htlc_ids[i] # r.ret
                  /\ ActiveStored(r.st) = ActiveStored(Contract) + 1
                  /\ ActiveListed(r.st) = ActiveListed(Contract) + 1
    /\ ActiveListed(Contract) = ActiveStored(Contract)
    /\ \A caller \in Accounts, id \in CallIds :
          /\ \A secret \in Secrets :
                LET w == withdraw(Contract, Env(caller, 0), id, secret)
                IN  w.ok => ActiveListed(w.st) = ActiveListed(Contract) - 1
          /\ LET r == refund(Contract, Env(caller, 0), id)
             IN  r.ok => ActiveListed(r.st) = ActiveListed(Contract) - 1

\* The from_timestamp arguments of get_recent_events: the seconds of the
\* model's clock, and a day and more.
FromTimestamps == (0..(MaxTimelock + 1)) \cup {DaySecs, DaySecs + 1}

\* The positions of the events of a kind for an id in a list of EventLog.
LogPositions(log, kind, htlc_id) ==
    {i \in DOMAIN log : log[i].kind = kind /\ log[i].htlc_id = htlc_id}

\* C31: get_recent_events(from_timestamp) returns, for a record created after
\* from_timestamp and since withdrawn, its creation event and then its
\* withdrawal event with the secret, and for one since refunded its creation
\* event and its refund event.
C31_RecentEventsComplete ==
    \A from_timestamp \in FromTimestamps :
       \A r \in get_recent_events(Contract, Env(Owner, 0), from_timestamp) :
          r.ok =>
             \A id \in DOMAIN htlcs :
                htlcs[id].created_at > from_timestamp =>
                   /\ htlcs[id].state = "Withdrawn" =>
                         /\ LogPositions(r.ret, "HTLCCreated", id) # {}
                         /\ \E w \in LogPositions(r.ret, "SecretRevealed", id) :
                               /\ r.ret[w].secret = htlcs[id].secret[1]
                               /\ \A c \in LogPositions(r.ret, "HTLCCreated", id) : c < w
                   /\ htlcs[id].state = "Refunded" =>
                         /\ LogPositions(r.ret, "HTLCCreated", id) # {}
                         /\ LogPositions(r.ret, "HTLCRefunded", id) # {}

\* The positions of a page of the id list whose record is now Active.
ActivePositions(from_index, limit) ==
    {p \in PagePositions(from_index, limit) : htlcs[htlc_ids[p]].state = "Active"}

\* C32: get_active_htlcs(from_index, limit) returns, in the order of the id
\* list, the records now Active among the ids at the positions
\* from_index .. from_index+limit-1 of the list of all ids, and nothing else:
\* no entry is non-Active, and Active records beyond the window are left out
\* even when the window yields fewer than limit entries.
C32_ActiveWindow ==
    \A from_index \in PageArgs, limit \in PageArgs :
       LET r == get_active_htlcs(Contract, from_index, limit)
           positions == ActivePositions(from_index, limit)
       IN  /\ r.ok
           /\ Len(r.ret) = Cardinality(positions)
           /\ \A i \in DOMAIN r.ret : r.ret[i].state = "Active"
           /\ \A p \in positions :
                 r.ret[Cardinality({q \in positions : q <= p})]
                    = HTLCInfo(htlc_ids[p], htlcs[htlc_ids[p]])

\* C32 happens: the first id is settled and a later one is Active, and the
\* window of one entry from the start comes back empty.
C32_Witness ==
    /\ Len(htlc_ids) = 2
    /\ htlcs[htlc_ids[1]].state # "Active"
    /\ htlcs[htlc_ids[2]].state = "Active"
    /\ get_active_htlcs(Contract, 0, 1).ret = << >>
    /\ Len(get_active_htlcs(Contract, 1, 1).ret) = 1

\* C33: the hashlock is a SHA-256 commitment: the receiver's withdraw of an
\* Active record before its expiry succeeds when the hex SHA-256 digest of
\* the supplied secret equals the stored hashlock.
C33_Sha256Commitment ==
    \A id \in DOMAIN htlcs, secret \in Secrets :
       ( /\ htlcs[id].state = "Active"
         /\ NowSec < htlcs[id].timelock
         /\ htlcs[id].hashlock = Sha256Hex(secret) )
       => withdraw(Contract, Env(htlcs[id].receiver, 0), id, secret).ok

\* The creations of a request with the given timelock that is otherwise
\* acceptable: by the caller create_htlc accepts, and by a token contract.
CreationsWith(timelock) ==
    {create_htlc(Contract, Env(NEAR, MaxAmount),
        HTLCCreateArgs(receiver, NEAR, MaxAmount, HashLower, timelock, None)) :
        receiver \in Users}
    \cup
    {ft_on_transfer(Contract, Env(token, 0), sender_id, MaxAmount,
        HTLCCreateArgs(receiver, token, MaxAmount, HashLower, timelock, None)) :
        token \in TokenAccounts, sender_id \in Users, receiver \in Users}

C35_HelperMessageAccepted ==
    \A token \in TokenAccounts \ {NEAR}, sender_id \in Users, receiver \in Users,
       amount \in 1..MaxAmount, timelock \in 1..(MaxTimelock + 1) :
       timelock > NowSec =>
          LET msg == create_htlc_msg(receiver, HashLower, timelock, None)
              r == ft_on_transfer_msg(Contract, Env(token, 0), sender_id, amount, msg)
              id == generate_htlc_id(sender_id, receiver, block_timestamp)
          IN  /\ r.ok
              /\ r.ret = 0
              /\ id \in DOMAIN r.st.htlcs
              /\ r.st.htlcs[id].token = token
              /\ r.st.htlcs[id].amount = amount
              /\ r.st.htlcs[id].sender = sender_id
              /\ r.st.htlcs[id].state = "Active"

\* The native-asset entries of a batch creation that are acceptable now.
NativeEntries ==
    {args \in CoreInputs.batch_args :
        args.token = NEAR /\ args.amount > 0 /\ args.timelock > NowSec}

\* C36: batch_create_htlc with n native entries whose amounts sum to the
\* attached deposit creates n distinct Active records, one per entry with the
\* entry's receiver, amount, hashlock and timelock, and returns their ids in
\* order; with any other deposit it fails and creates nothing.
C36_BatchCreate ==
    \A caller \in Accounts, batch \in Batches(NativeEntries),
       deposit \in 0..(MaxBatch * MaxAmount) :
       LET r == batch_create_htlc(Contract, Env(caller, deposit), batch) IN
       IF deposit = total_required(batch)
       THEN /\ r.ok
            /\ Len(r.ret) = Len(batch)
            /\ \A i, j \in DOMAIN r.ret : i # j => r.ret[i] # r.ret[j]
            /\ \A i \in DOMAIN r.ret :
                  /\ r.ret[i] \in DOMAIN r.st.htlcs
                  /\ r.st.htlcs[r.ret[i]].state = "Active"
                  /\ r.st.htlcs[r.ret[i]].receiver = batch[i].receiver
                  /\ r.st.htlcs[r.ret[i]].amount = batch[i].amount
                  /\ r.st.htlcs[r.ret[i]].hashlock = batch[i].hashlock
                  /\ r.st.htlcs[r.ret[i]].timelock = batch[i].timelock
       ELSE ~r.ok /\ r.st = Contract

\* The sum of a list of numbers.
RECURSIVE SumSeq(_)
SumSeq(seq) == IF seq = << >> THEN 0 ELSE Head(seq) + SumSeq(Tail(seq))

\* The number a decimal string of an ft_transfer argument stands for.
ParseAmount(str) == CHOOSE n \in 0..(MaxCreates * MaxAmount) : ToString(n) = str

\* The total custodied for an asset by the successful creations so far.
Custodied(token) ==
    SumSeq([i \in DOMAIN events |->
              IF IsCreatedEvent(events[i]) /\ events[i].token = token
              THEN events[i].amount ELSE 0])

\* The total of an asset the transfers requested so far release.
Released(token) ==
    SumSeq([i \in DOMAIN transfers |->
              LET promise == transfers[i].promise IN
              IF promise.action = "transfer"
              THEN IF token = NEAR THEN promise.deposit ELSE 0
              ELSE IF promise.target = token
                   THEN ParseAmount(promise.args[1].amount) ELSE 0])

\* The total of an asset the Active records hold.
RECURSIVE ActiveTotal(_, _)
ActiveTotal(token, ids) ==
    IF ids = {} THEN 0
    ELSE LET id == CHOOSE x \in ids : TRUE
         IN  (IF htlcs[id].state = "Active" /\ htlcs[id].token = token
              THEN htlcs[id].amount ELSE 0)
             + ActiveTotal(token, ids \ {id})

\* C37: for every asset, the total custodied by successful creations equals
\* the total of the Active records plus the total of the transfers withdraw
\* and refund requested.
C37_FundsConserved ==
    \A token \in TokenAccounts :
       Custodied(token) = ActiveTotal(token, DOMAIN htlcs) + Released(token)

\* The page sizes of an enumeration.
PageLimits == 1..(MaxCreates + 1)

\* The records of get_htlcs_paginated page by page from from_index on
\* (from_index, from_index + limit, ...) until has_more is false.
RECURSIVE EnumeratePages(_, _)
EnumeratePages(from_index, limit) ==
    LET r == CHOOSE x \in get_htlcs_paginated(Contract, from_index, limit) : TRUE
    IN  IF r.ret[2] THEN r.ret[1] \o EnumeratePages(from_index + limit, limit)
        ELSE r.ret[1]

\* C38: the id list names every stored record's id exactly once, and the
\* pages of get_htlcs_paginated from 0 on, until has_more is false, hold each
\* stored record exactly once, in the order of creation.
C38_EnumerationExact ==
    /\ \A id \in DOMAIN htlcs :
          Cardinality({i \in DOMAIN htlc_ids : htlc_ids[i] = id}) = 1
    /\ \A limit \in PageLimits :
          LET listed == EnumeratePages(0, limit) IN
          /\ \A id \in DOMAIN htlcs :
                Cardinality({i \in DOMAIN listed : listed[i].htlc_id = id}) = 1
          /\ \A i \in DOMAIN listed : listed[i] = HTLCInfo(htlc_ids[i], htlcs[htlc_ids[i]])

\* C39: ft_on_transfer, whoever calls it and whatever the message names,
\* never creates a record of the native asset: the native records after a
\* successful call are those before it.
C39_NativeOnlyByDeposit ==
    \A caller \in Accounts, token \in TokenAccounts, sender_id \in Users,
       receiver \in Users, amount \in Amounts, timelock \in 1..(MaxTimelock + 1) :
       LET r == ft_on_transfer(Contract, Env(caller, 0), sender_id, amount,
                   HTLCCreateArgs(receiver, token, amount, HashLower, timelock, None))
       IN  r.ok =>
              \A id \in DOMAIN r.st.htlcs :
                 r.st.htlcs[id].token = NEAR =>
                    id \in DOMAIN htlcs /\ htlcs[id] = r.st.htlcs[id]

\* C40: get_recent_events(from_timestamp) completes for every from_timestamp,
\* also below 86400, and its early exit leaves out no record created after
\* from_timestamp: every such record has an event in the result.
C40_RecentEventsTotal ==
    \A from_timestamp \in FromTimestamps :
       \A r \in get_recent_events(Contract, Env(Owner, 0), from_timestamp) :
          /\ r.ok
          /\ \A id \in DOMAIN htlcs :
                htlcs[id].created_at > from_timestamp =>
                   \E i \in DOMAIN r.ret : r.ret[i].htlc_id = id

====
